---- MODULE Spec2Model ----
(***************************************************************************)
(* A model of kubecfg's diff command (pkg/kubecfg/diff.go): the run loop   *)
(* DiffCmd.Run, the subset reducer removeFields / removeMapFields /        *)
(* removeListFields with its emptiness predicate isEmptyValue, and the     *)
(* diff formatter DiffCmd.formatDiff.                                      *)
(*                                                                         *)
(* A decoded value (Go interface{}) is a record [k, v]: k is the dynamic   *)
(* Go type, v the payload.  Texts are sequences of one-character strings.  *)
(***************************************************************************)
EXTENDS Integers, Sequences, FiniteSets, TLC

VARIABLES
  \* DiffCmd.Run
  apiObjects, DiffStrategy, OmitSecrets, pc, idx, out, diffFound, ret, hist,
  \* removeFields / isEmptyValue
  config, live, result, empty, rpc,
  \* formatDiff
  diffs, color, omitchanges, buff, fi, fpc

runVars == <<apiObjects, DiffStrategy, OmitSecrets, pc, idx, out, diffFound, ret, hist>>
redVars == <<config, live, result, empty, rpc>>
fmtVars == <<diffs, color, omitchanges, buff, fi, fpc>>
vars == <<runVars, redVars, fmtVars>>

(***************************************************************************)
(* Decoded values                                                          *)
(***************************************************************************)
Nil == [k |-> "nil", num |-> 0]
Bool(b) == [k |-> "bool", flag |-> b]
F64(n) == [k |-> "float64", num |-> n]
I64(n) == [k |-> "int64", num |-> n]
Str(s) == [k |-> "string", str |-> s]
StrList(s) == [k |-> "[]string", strs |-> s]
List(s) == [k |-> "[]interface{}", list |-> s]
Map(m) == [k |-> "map", map |-> m]
\* a Go value of a type the JSON decoder never produces (here: a plain int)
GoInt(n) == [k |-> "int", num |-> n]
\* a Go value json.Marshal cannot encode (here: a channel)
Chan == [k |-> "chan", num |-> 0]
\* the outcome of a call that panicked
Panic == [k |-> "panic", num |-> 0]

EmptyMap == [x \in {} |-> Nil]
Put(m, key, val) == [x \in DOMAIN m \cup {key} |-> IF x = key THEN val ELSE m[x]]

SeqsUpTo(S, n) == UNION {[1..m -> S] : m \in 0..n}

\* every value of d, at any depth, has its type in kinds
RECURSIVE AllKindsIn(_, _)
AllKindsIn(d, kinds) ==
  /\ d.k \in kinds
  /\ d.k = "map" => \A x \in DOMAIN d.map : AllKindsIn(d.map[x], kinds)
  /\ d.k = "[]interface{}" => \A i \in 1..Len(d.list) : AllKindsIn(d.list[i], kinds)

\* the state of the operations a specification does not exercise
RunIdle ==
  /\ apiObjects = <<>> /\ DiffStrategy = "" /\ OmitSecrets = FALSE /\ pc = "idle"
  /\ idx = 0 /\ out = <<>> /\ diffFound = FALSE /\ ret = "none" /\ hist = <<>>
ReduceIdle ==
  /\ config = Nil /\ live = Nil /\ result = Nil /\ empty = "none" /\ rpc = "idle"
FormatIdle ==
  /\ diffs = <<>> /\ color = FALSE /\ omitchanges = FALSE /\ buff = <<>>
  /\ fi = 0 /\ fpc = "idle"

\* the types isEmptyValue's switch has a case for
ClosedKinds == {"[]interface{}", "[]string", "map", "bool", "float64", "int64", "string", "nil"}

(***************************************************************************)
(* isEmptyValue: "true", "false", or "panic" for the default case          *)
(***************************************************************************)
isEmptyValueNoDefault(i) ==
  CASE i.k = "[]interface{}" -> IF Len(i.list) = 0 THEN "true" ELSE "false"
    [] i.k = "[]string" -> IF Len(i.strs) = 0 THEN "true" ELSE "false"
    [] i.k = "map" -> IF DOMAIN i.map = {} THEN "true" ELSE "false"
    [] i.k = "bool" -> IF ~i.flag THEN "true" ELSE "false"
    [] i.k = "float64" -> IF i.num = 0 THEN "true" ELSE "false"
    [] i.k = "int64" -> IF i.num = 0 THEN "true" ELSE "false"
    [] i.k = "string" -> IF i.str = <<>> THEN "true" ELSE "false"
    [] i.k = "nil" -> "true"
    [] OTHER -> "true"

isEmptyValue(i) ==
  CASE i.k = "[]interface{}" -> IF Len(i.list) = 0 THEN "true" ELSE "false"
    [] i.k = "[]string" -> IF Len(i.strs) = 0 THEN "true" ELSE "false"
    [] i.k = "map" -> IF DOMAIN i.map = {} THEN "true" ELSE "false"
    [] i.k = "bool" -> IF ~i.flag THEN "true" ELSE "false"
    [] i.k = "float64" -> IF i.num = 0 THEN "true" ELSE "false"
    [] i.k = "int64" -> IF i.num = 0 THEN "true" ELSE "false"
    [] i.k = "string" -> IF i.str = <<>> THEN "true" ELSE "false"
    [] i.k = "nil" -> "true"
    [] OTHER -> "panic"

(***************************************************************************)
(* removeFields, removeMapFields, removeListFields                         *)
(***************************************************************************)
RECURSIVE removeFields(_, _), removeMapLoop(_, _, _, _), removeListLoop(_, _, _, _)

\* the body of removeMapFields' range loop, over the keys of config not yet visited
removeMapLoop(c, l, todo, res) ==
  IF todo = {} THEN Map(res)
  ELSE LET key == CHOOSE x \in todo : TRUE
           v1 == c.map[key]
       IN IF key \notin DOMAIN l.map
          THEN CASE isEmptyValue(v1) = "panic" -> Panic
                 [] isEmptyValue(v1) = "true" -> removeMapLoop(c, l, todo \ {key}, Put(res, key, v1))
                 [] OTHER -> removeMapLoop(c, l, todo \ {key}, res)
          ELSE LET r == removeFields(v1, l.map[key])
               IN IF r = Panic THEN Panic
                  ELSE removeMapLoop(c, l, todo \ {key}, Put(res, key, r))

\* a reducer that also copies the keys only live has
removeMapFieldsKeepLive(c, l) ==
  LET r == removeMapLoop(c, l, DOMAIN c.map, EmptyMap)
  IN IF r = Panic THEN Panic
     ELSE Map([x \in DOMAIN r.map \cup DOMAIN l.map |-> IF x \in DOMAIN r.map THEN r.map[x] ELSE l.map[x]])

\* a reducer that drops a key whose live value is empty
removeMapFieldsDropEmpty(c, l) ==
  LET r == removeMapLoop(c, l, DOMAIN c.map, EmptyMap)
  IN IF r = Panic THEN Panic
     ELSE Map([x \in {y \in DOMAIN r.map : isEmptyValue(r.map[y]) # "true"} |-> r.map[x]])

removeMapFields(c, l) == removeMapLoop(c, l, DOMAIN c.map, EmptyMap)

\* the body of removeListFields' range loop, from index i of live
removeListLoop(c, l, i, res) ==
  IF i > Len(l.list) THEN List(res)
  ELSE IF Len(c.list) >= i
       THEN LET r == removeFields(c.list[i], l.list[i])
            IN IF r = Panic THEN Panic ELSE removeListLoop(c, l, i + 1, Append(res, r))
       ELSE removeListLoop(c, l, i + 1, Append(res, l.list[i]))

\* a reducer that stops at the end of config
removeListFieldsTruncate(c, l) ==
  LET r == removeListLoop(c, l, 1, <<>>)
  IN IF r = Panic \/ Len(c.list) >= Len(l.list) THEN r ELSE List(SubSeq(r.list, 1, Len(c.list)))

removeListFields(c, l) == removeListLoop(c, l, 1, <<>>)

removeFields(c, l) ==
  IF c.k = "map" /\ l.k = "map" THEN removeMapFields(c, l)
  ELSE IF c.k = "[]interface{}" /\ l.k = "[]interface{}" THEN removeListFields(c, l)
  ELSE l

(***************************************************************************)
(* Texts: sequences of one-character strings                               *)
(***************************************************************************)
NL == "\n"
QUOTE == "\""
At(t, i) == IF i >= 1 /\ i <= Len(t) THEN t[i] ELSE "EOF"

Letters == {"a", "b", "c", "d", "e", "f", "g", "h", "i", "j", "k", "l", "m", "n", "o", "p",
            "q", "r", "s", "t", "u", "v", "w", "x", "y", "z",
            "A", "B", "C", "D", "E", "F", "G", "H", "I", "J", "K", "L", "M", "N", "O", "P",
            "Q", "R", "S", "T", "U", "V", "W", "X", "Y", "Z"}
Digits == {"0", "1", "2", "3", "4", "5", "6", "7", "8", "9"}
\* [-._a-zA-Z0-9], [[:alnum:]=+] and \s of DiffKeyValue
KeyClass == Letters \cup Digits \cup {"-", ".", "_"}
ValueClass == Letters \cup Digits \cup {"=", "+"}
SpaceClass == {" ", "\t", "\n", "\f", "\r"}

\* how many characters of class cls stand at t[i], t[i+1], ...
RECURSIVE RunLength(_, _, _)
RunLength(t, i, cls) == IF At(t, i) \in cls THEN 1 + RunLength(t, i + 1, cls) ELSE 0

\* the match of DiffKeyValue that starts at t[i]: its length (0: none) and its group $1
KeyValueMatch(t, i) ==
  LET kl == RunLength(t, i + 1, KeyClass)
      vs == i + kl + 5
      vl == RunLength(t, vs, ValueClass)
      ok == /\ At(t, i) = QUOTE /\ kl >= 1
            /\ At(t, i + kl + 1) = QUOTE /\ At(t, i + kl + 2) = ":"
            /\ At(t, i + kl + 3) \in SpaceClass /\ At(t, i + kl + 4) = QUOTE
            /\ vl >= 1 /\ At(t, vs + vl) = QUOTE
      comma == IF At(t, vs + vl + 1) = "," THEN 1 ELSE 0
  IN IF ok THEN [len |-> kl + vl + 6 + comma, key |-> SubSeq(t, i + 1, i + kl)]
     ELSE [len |-> 0, key |-> <<>>]

Omitted == <<":", " ", "<", "o", "m", "i", "t", "t", "e", "d", ">">>

\* the least element of a non-empty set of positions
Least(S) == CHOOSE i \in S : \A j \in S : i <= j

\* DiffKeyValue.ReplaceAllString(t, "$1: <omitted>"), from t[i] on: the leftmost
\* match is replaced and the scan goes on behind it
RECURSIVE ReplaceKeyValueFrom(_, _)
ReplaceKeyValueFrom(t, i) ==
  LET starts == {j \in i..Len(t) : KeyValueMatch(t, j).len > 0}
  IN IF starts = {} THEN SubSeq(t, i, Len(t))
     ELSE LET j == Least(starts)
              m == KeyValueMatch(t, j)
          IN SubSeq(t, i, j - 1) \o m.key \o Omitted \o ReplaceKeyValueFrom(t, j + m.len)

ReplaceKeyValue(t) == ReplaceKeyValueFrom(t, 1)

\* DiffLineStart matches at t[j]: (^|\n)(.) is the start of the text or a newline,
\* and then a character that is not a newline
LineStartMatch(t, j) ==
  IF j = 1 /\ At(t, 1) # NL /\ Len(t) >= 1 THEN [len |-> 1, nl |-> <<>>]
  ELSE IF At(t, j) = NL /\ j + 1 <= Len(t) /\ At(t, j + 1) # NL THEN [len |-> 2, nl |-> <<NL>>]
  ELSE [len |-> 0, nl |-> <<>>]

\* DiffLineStart.ReplaceAllString(t, "$1" + mark + "$2"), from t[i] on
RECURSIVE ReplaceLineStartFrom(_, _, _)
ReplaceLineStartFrom(t, i, mark) ==
  LET starts == {j \in i..Len(t) : LineStartMatch(t, j).len > 0}
  IN IF starts = {} THEN SubSeq(t, i, Len(t))
     ELSE LET j == Least(starts)
              m == LineStartMatch(t, j)
          IN SubSeq(t, i, j - 1) \o m.nl \o mark \o <<t[j + m.len - 1]>>
             \o ReplaceLineStartFrom(t, j + m.len, mark)

ReplaceLineStart(t, mark) == ReplaceLineStartFrom(t, 1, mark)

(***************************************************************************)
(* formatDiff                                                              *)
(***************************************************************************)
DiffInsert == "DiffInsert"
DiffDelete == "DiffDelete"
DiffEqual == "DiffEqual"
ESC == "ESC"
Green == <<ESC, "[", "3", "2", "m">>
Red == <<ESC, "[", "3", "1", "m">>
Reset == <<ESC, "[", "0", "m">>

\* a formatter that writes the Equal segments also when redacting
formatSegmentEqualAlways(diff, col, omit) ==
  LET text == IF omit THEN ReplaceKeyValue(diff.Text) ELSE diff.Text
  IN CASE diff.Type = DiffInsert ->
            (IF col THEN Green ELSE <<>>) \o ReplaceLineStart(text, <<"+", " ">>)
              \o (IF col THEN Reset ELSE <<>>)
       [] diff.Type = DiffDelete ->
            (IF col THEN Red ELSE <<>>) \o ReplaceLineStart(text, <<"-", " ">>)
              \o (IF col THEN Reset ELSE <<>>)
       [] diff.Type = DiffEqual -> ReplaceLineStart(text, <<" ", " ">>)

\* what one iteration of formatDiff's loop writes to buff
formatSegment(diff, col, omit) ==
  LET text == IF omit THEN ReplaceKeyValue(diff.Text) ELSE diff.Text
  IN CASE diff.Type = DiffInsert ->
            (IF col THEN Green ELSE <<>>) \o ReplaceLineStart(text, <<"+", " ">>)
              \o (IF col THEN Reset ELSE <<>>)
       [] diff.Type = DiffDelete ->
            (IF col THEN Red ELSE <<>>) \o ReplaceLineStart(text, <<"-", " ">>)
              \o (IF col THEN Reset ELSE <<>>)
       [] diff.Type = DiffEqual ->
            IF ~omit THEN ReplaceLineStart(text, <<" ", " ">>) ELSE <<>>

RECURSIVE formatDiffFrom(_, _, _, _)
formatDiffFrom(ds, i, col, omit) ==
  IF i > Len(ds) THEN <<>>
  ELSE formatSegment(ds[i], col, omit) \o formatDiffFrom(ds, i + 1, col, omit)

formatDiff(ds, col, omit) == formatDiffFrom(ds, 1, col, omit)

(***************************************************************************)
(* json.MarshalIndent(v, "", "  ")                                         *)
(***************************************************************************)
\* the keys of the modelled documents, in the encoder's (sorted) order
KeyOrder == <<"a", "b", "c", "o", "t">>
DigitChars == <<"0", "1", "2", "3", "4", "5", "6", "7", "8", "9">>
RECURSIVE Indent(_)
Indent(n) == IF n = 0 THEN <<>> ELSE <<" ", " ">> \o Indent(n - 1)

RECURSIVE Encode(_, _), EncodeEntries(_, _, _, _), EncodeElements(_, _, _)
\* the entries of mapping d from the i-th key of KeyOrder on, one per line
EncodeEntries(d, n, i, first) ==
  IF i > Len(KeyOrder) THEN <<>>
  ELSE IF KeyOrder[i] \notin DOMAIN d.map THEN EncodeEntries(d, n, i + 1, first)
  ELSE (IF first THEN <<>> ELSE <<",">>) \o <<NL>> \o Indent(n + 1)
       \o <<QUOTE, KeyOrder[i], QUOTE, ":", " ">> \o Encode(d.map[KeyOrder[i]], n + 1)
       \o EncodeEntries(d, n, i + 1, FALSE)
\* the elements of list d from the i-th on, one per line
EncodeElements(d, n, i) ==
  IF i > Len(d.list) THEN <<>>
  ELSE (IF i = 1 THEN <<>> ELSE <<",">>) \o <<NL>> \o Indent(n + 1)
       \o Encode(d.list[i], n + 1) \o EncodeElements(d, n, i + 1)
Encode(d, n) ==
  CASE d.k = "nil" -> <<"n", "u", "l", "l">>
    [] d.k = "bool" -> IF d.flag THEN <<"t", "r", "u", "e">> ELSE <<"f", "a", "l", "s", "e">>
    [] d.k \in {"float64", "int64", "int"} -> <<DigitChars[d.num + 1]>>
    [] d.k = "string" -> <<QUOTE>> \o d.str \o <<QUOTE>>
    [] d.k = "[]string" -> Encode(List([i \in 1..Len(d.strs) |-> Str(<<d.strs[i]>>)]), n)
    [] d.k = "[]interface{}" ->
         IF Len(d.list) = 0 THEN <<"[", "]">>
         ELSE <<"[">> \o EncodeElements(d, n, 1) \o <<NL>> \o Indent(n) \o <<"]">>
    [] d.k = "map" ->
         IF DOMAIN d.map = {} THEN <<"{", "}">>
         ELSE <<"{">> \o EncodeEntries(d, n, 1, TRUE) \o <<NL>> \o Indent(n) \o <<"}">>

\* the types the encoder has an encoding for
EncodableKinds == ClosedKinds \cup {"int"}
\* the two results of json.MarshalIndent: on an error the text is nil
MarshalIndent(d) ==
  IF AllKindsIn(d, EncodableKinds) THEN [text |-> Encode(d, 0), err |-> FALSE]
  ELSE [text |-> <<>>, err |-> TRUE]

(***************************************************************************)
(* dmp.DiffLinesToChars, dmp.DiffMain, dmp.DiffCharsToLines                *)
(***************************************************************************)
\* the lines of t from t[i] on, each with its newline
RECURSIVE SplitLines(_, _)
SplitLines(t, i) ==
  LET ends == {j \in i..Len(t) : t[j] = NL}
  IN IF i > Len(t) THEN <<>>
     ELSE IF ends = {} THEN <<SubSeq(t, i, Len(t))>>
     ELSE <<SubSeq(t, i, Least(ends))>> \o SplitLines(t, Least(ends) + 1)
RECURSIVE Flatten(_)
Flatten(ls) == IF ls = <<>> THEN <<>> ELSE Head(ls) \o Flatten(Tail(ls))
RECURSIVE CommonPrefix(_, _)
CommonPrefix(a, b) ==
  IF a # <<>> /\ b # <<>> /\ Head(a) = Head(b) THEN 1 + CommonPrefix(Tail(a), Tail(b)) ELSE 0
RECURSIVE Reverse(_)
Reverse(a) == IF a = <<>> THEN <<>> ELSE Append(Reverse(Tail(a)), Head(a))
Segment(type, ls) == IF ls = <<>> THEN <<>> ELSE <<[Type |-> type, Text |-> Flatten(ls)]>>

\* the line diff of two texts: the common first lines, the lines only text1 has,
\* the lines only text2 has, the common last lines
DiffMain(text1, text2) ==
  IF text1 = text2
  THEN (IF text1 = <<>> THEN <<>> ELSE <<[Type |-> DiffEqual, Text |-> text1]>>)
  ELSE LET l1 == SplitLines(text1, 1)
           l2 == SplitLines(text2, 1)
           p == CommonPrefix(l1, l2)
           r1 == SubSeq(l1, p + 1, Len(l1))
           r2 == SubSeq(l2, p + 1, Len(l2))
           q == CommonPrefix(Reverse(r1), Reverse(r2))
       IN Segment(DiffEqual, SubSeq(l1, 1, p))
          \o Segment(DiffDelete, SubSeq(r1, 1, Len(r1) - q))
          \o Segment(DiffInsert, SubSeq(r2, 1, Len(r2) - q))
          \o Segment(DiffEqual, SubSeq(r1, Len(r1) - q + 1, Len(r1)))

(***************************************************************************)
(* The collaborators of DiffCmd.Run                                        *)
(***************************************************************************)
Without(d, key) == Map([x \in DOMAIN d.map \ {key} |-> d.map[x]])
\* metadata.creationTimestamp is key "t", the annotation AnnotationOrigObject key "o"
CreationTimestampIsZero(d) == "t" \notin DOMAIN d.map \/ d.map["t"] = Nil
SetCreationTimestampZero(d) == Without(d, "t")
DeleteMetaDataAnnotation(d) == Without(d, "o")

\* patch(liveObj, obj, schema): obj merged into liveObj
RECURSIVE patch(_, _)
patch(l, c) ==
  IF l.k = "map" /\ c.k = "map"
  THEN Map([x \in DOMAIN l.map \cup DOMAIN c.map |->
              IF x \notin DOMAIN c.map THEN l.map[x]
              ELSE IF x \notin DOMAIN l.map THEN c.map[x]
              ELSE patch(l.map[x], c.map[x])])
  ELSE c

\* sort.Sort(utils.AlphabeticalOrder(apiObjects)): by the resources' keys
RECURSIVE Insert(_, _)
Insert(sorted, r) ==
  IF sorted = <<>> THEN <<r>>
  ELSE IF r.key < Head(sorted).key THEN <<r>> \o sorted
  ELSE <<Head(sorted)>> \o Insert(Tail(sorted), r)
RECURSIVE Sort(_)
Sort(rs) == IF rs = <<>> THEN <<>> ELSE Insert(Sort(Tail(rs)), Head(rs))

(***************************************************************************)
(* DiffCmd.Run                                                             *)
(***************************************************************************)
MaxRes == 2

\* the desired documents
ConfigMapX ==
  Map([a |-> F64(0),
       b |-> List(<<Map([a |-> Str(<<"x">>)])>>),
       c |-> Map([a |-> Str(<<>>), b |-> F64(1)])])
SecretY == Map([a |-> Str(<<"x">>), t |-> Nil])

\* a resource: its place in the alphabetical order, fmt.Sprintf("%s %s", ...), GetName(),
\* GetKind() and Object
Resources ==
  {[key |-> 1, desc |-> "configmaps x", name |-> "x", kind |-> "ConfigMap", obj |-> ConfigMapX],
   [key |-> 2, desc |-> "configmaps ", name |-> "", kind |-> "ConfigMap", obj |-> ConfigMapX],
   [key |-> 3, desc |-> "secrets y", name |-> "y", kind |-> "Secret", obj |-> SecretY]}

\* the documents client.Get may return
LiveObjects ==
  {ConfigMapX,
   Map([b |-> List(<<Map([a |-> Str(<<"x">>), b |-> F64(1)])>>),
        c |-> Map([b |-> F64(1)]),
        o |-> Str(<<"x">>)]),
   Map([a |-> F64(0),
        b |-> List(<<Map([a |-> Str(<<"x">>)]), F64(1)>>),
        c |-> Map([a |-> Str(<<>>), b |-> F64(1)])]),
   Map([a |-> Str(<<"x">>), t |-> F64(1)]),
   Map([a |-> Str(<<"x">>)]),
   Map([a |-> Str(<<"z">>), b |-> Chan])}

ErrDiffFound == "ErrDiffFound"
\* the errors of lines 79, 83 and 91
FetchErrors == {"err:client", "err:name", "err:fetch"}

Write(op, desc, text) == [op |-> op, desc |-> desc, text |-> text]
\* lines 94-95
Header(obj) == <<Write("---", "", <<>>), Write("live/config", obj.desc, <<>>)>>
\* what the iteration for obj did: the fetch, the two documents compared and whether
\* they differ, a failed serialization, and the body written
Did(obj, fetch, liveObj, left, right, marshalErr, body) ==
  [obj |-> obj, fetch |-> fetch, liveObj |-> liveObj, left |-> left, right |-> right,
   differs |-> left # right, marshalErr |-> marshalErr, body |-> body]

InitRun ==
  /\ apiObjects \in SeqsUpTo(Resources, MaxRes)
  /\ DiffStrategy \in {"all", "subset", "update"}
  /\ OmitSecrets \in BOOLEAN
  /\ pc = "start" /\ idx = 0 /\ out = <<>> /\ diffFound = FALSE /\ ret = "none"
  /\ hist = <<>>
  /\ ReduceIdle /\ FormatIdle

\* lines 61-72, the schema fetched
Begin ==
  /\ pc = "start"
  /\ apiObjects' = Sort(apiObjects)
  /\ pc' = "loop"
  /\ UNCHANGED <<DiffStrategy, OmitSecrets, idx, out, diffFound, ret, hist, redVars, fmtVars>>

\* lines 61-72, OpenAPISchema or NewOpenAPIData failing
SchemaError ==
  /\ pc = "start"
  /\ apiObjects' = Sort(apiObjects)
  /\ ret' = "err:schema" /\ pc' = "done"
  /\ UNCHANGED <<DiffStrategy, OmitSecrets, idx, out, diffFound, hist, redVars, fmtVars>>

InLoop == pc = "loop" /\ idx < Len(apiObjects)
Return(err) ==
  /\ ret' = err /\ pc' = "done"
  /\ UNCHANGED <<apiObjects, DiffStrategy, OmitSecrets, idx, redVars, fmtVars>>
Continue ==
  /\ idx' = idx + 1
  /\ UNCHANGED <<apiObjects, DiffStrategy, OmitSecrets, pc, ret, redVars, fmtVars>>

\* lines 77-80
ClientError ==
  /\ InLoop
  /\ LET obj == apiObjects[idx + 1]
     IN hist' = Append(hist, Did(obj, "client error", Nil, Nil, Nil, FALSE, "none"))
  /\ UNCHANGED <<out, diffFound>>
  /\ Return("err:client")

\* lines 82-84
NameMissing ==
  /\ InLoop
  /\ LET obj == apiObjects[idx + 1]
     IN /\ obj.name = ""
        /\ hist' = Append(hist, Did(obj, "no name", Nil, Nil, Nil, FALSE, "none"))
  /\ UNCHANGED <<out, diffFound>>
  /\ Return("err:name")

\* a fetch that fails only after the header is written
GetErrorAfterHeader ==
  /\ InLoop
  /\ LET obj == apiObjects[idx + 1]
     IN /\ obj.name # ""
        /\ out' = out \o Header(obj)
        /\ hist' = Append(hist, Did(obj, "error", Nil, Nil, Nil, FALSE, "none"))
  /\ UNCHANGED <<diffFound>>
  /\ Return("err:fetch")

\* lines 86-92, an error that is not NotFound
GetError ==
  /\ InLoop
  /\ LET obj == apiObjects[idx + 1]
     IN /\ obj.name # ""
        /\ hist' = Append(hist, Did(obj, "error", Nil, Nil, Nil, FALSE, "none"))
  /\ UNCHANGED <<out, diffFound>>
  /\ Return("err:fetch")

\* lines 86-89 and 94-100
NotFound ==
  /\ InLoop
  /\ LET obj == apiObjects[idx + 1]
     IN /\ obj.name # ""
        /\ out' = out \o Header(obj) \o <<Write("doesn't exist on server", obj.desc, <<>>)>>
        /\ hist' = Append(hist, Did(obj, "not found", Nil, Nil, Nil, FALSE, "absent"))
  /\ diffFound' = TRUE
  /\ Continue

\* lines 110-113
UpdatePatchError ==
  /\ InLoop /\ DiffStrategy = "update"
  /\ \E liveObj \in LiveObjects :
       LET obj == apiObjects[idx + 1]
       IN /\ obj.name # ""
          /\ out' = out \o Header(obj)
          /\ hist' = Append(hist, Did(obj, "found", liveObj, Nil, Nil, FALSE, "none"))
  /\ UNCHANGED <<diffFound>>
  /\ Return("err:patch")

\* lines 110-120
UpdateDeepEqual ==
  /\ InLoop /\ DiffStrategy = "update"
  /\ \E liveObj \in LiveObjects :
       LET obj == apiObjects[idx + 1]
           mergedObj == patch(liveObj, obj.obj)
           liveObj2 == IF CreationTimestampIsZero(mergedObj)
                       THEN SetCreationTimestampZero(liveObj) ELSE liveObj
       IN /\ obj.name # ""
          /\ liveObj2 = mergedObj
          /\ out' = out \o Header(obj)
          /\ hist' = Append(hist, Did(obj, "found", liveObj, liveObj2, mergedObj, FALSE, "none"))
  /\ UNCHANGED <<diffFound>>
  /\ Return("nil")

\* lines 110-142
UpdateDiff ==
  /\ InLoop /\ DiffStrategy = "update"
  /\ \E liveObj \in LiveObjects, isTerminal \in BOOLEAN :
       LET obj == apiObjects[idx + 1]
           mergedObj == patch(liveObj, obj.obj)
           liveObj2 == IF CreationTimestampIsZero(mergedObj)
                       THEN SetCreationTimestampZero(liveObj) ELSE liveObj
           liveObjObject == DeleteMetaDataAnnotation(liveObj2)
           mergedObjObject == DeleteMetaDataAnnotation(mergedObj)
           liveObjText == MarshalIndent(liveObjObject)
           mergedObjText == MarshalIndent(mergedObjObject)
           diff == DiffMain(liveObjText.text, mergedObjText.text)
           unchanged == Len(diff) = 1 /\ diff[1].Type = DiffEqual
           text == formatDiff(diff, isTerminal, OmitSecrets /\ obj.kind = "Secret")
       IN /\ obj.name # ""
          /\ liveObj2 # mergedObj
          \* isatty is only asked when a diff is formatted
          /\ unchanged => ~isTerminal
          /\ out' = out \o Header(obj) \o
                    <<IF unchanged THEN Write("unchanged", obj.desc, <<>>)
                      ELSE Write("diff", "", text)>>
          /\ diffFound' = (diffFound \/ ~unchanged)
          /\ hist' = Append(hist, Did(obj, "found", liveObj, liveObjObject, mergedObjObject,
                                      liveObjText.err \/ mergedObjText.err,
                                      IF unchanged THEN "unchanged" ELSE "diff"))
  /\ Return("nil")

\* lines 145-167
Diff ==
  /\ InLoop /\ DiffStrategy # "update"
  /\ \E liveObj \in LiveObjects, isTerminal \in BOOLEAN :
       LET obj == apiObjects[idx + 1]
           liveObjObject == IF DiffStrategy = "subset" THEN removeMapFields(obj.obj, liveObj)
                            ELSE liveObj
           liveObjText == MarshalIndent(liveObjObject)
           objText == MarshalIndent(obj.obj)
           diff == DiffMain(liveObjText.text, objText.text)
           unchanged == Len(diff) = 1 /\ diff[1].Type = DiffEqual
           text == formatDiff(diff, isTerminal, OmitSecrets /\ obj.kind = "Secret")
       IN /\ obj.name # ""
          /\ liveObjObject # Panic
          \* isatty is only asked when a diff is formatted
          /\ unchanged => ~isTerminal
          /\ out' = out \o Header(obj) \o
                    <<IF unchanged THEN Write("unchanged", obj.desc, <<>>)
                      ELSE Write("diff", "", text)>>
          /\ diffFound' = (diffFound \/ ~unchanged)
          /\ hist' = Append(hist, Did(obj, "found", liveObj, liveObjObject, obj.obj,
                                      liveObjText.err \/ objText.err,
                                      IF unchanged THEN "unchanged" ELSE "diff"))
  /\ Continue

\* lines 170-173
Finish ==
  /\ pc = "loop" /\ idx = Len(apiObjects)
  /\ ret' = IF diffFound THEN ErrDiffFound ELSE "nil"
  /\ pc' = "done"
  /\ UNCHANGED <<apiObjects, DiffStrategy, OmitSecrets, idx, out, diffFound, hist,
                 redVars, fmtVars>>

Next ==
  \/ Begin \/ SchemaError
  \/ ClientError \/ NameMissing \/ GetError \/ NotFound
  \/ UpdatePatchError \/ UpdateDeepEqual \/ UpdateDiff
  \/ Diff
  \/ Finish
Init == InitRun
Spec == Init /\ [][Next]_vars

(***************************************************************************)
(* Inputs of the reducer                                                   *)
(***************************************************************************)
MaxLen == 2
Keys == {"a", "b"}
MapsOver(S) == UNION {[ks -> S] : ks \in SUBSET Keys}

Scalars == {Nil, F64(0), F64(1), Str(<<"x">>), GoInt(0)}
TopScalars == Scalars \cup {Bool(FALSE), Bool(TRUE), I64(0), I64(1), Str(<<>>),
                            StrList(<<>>), StrList(<<"x">>), Chan}
Level1 == {Map(m) : m \in MapsOver(Scalars)} \cup {List(s) : s \in SeqsUpTo(Scalars, MaxLen)}
Level2 == {Map([x \in {"c"} |-> d]) : d \in Level1} \cup {List(<<d>>) : d \in Level1}
Values == TopScalars \cup Level1 \cup Level2

(***************************************************************************)
(* The reducer and the emptiness predicate applied to chosen inputs        *)
(***************************************************************************)
InitReduce ==
  /\ config \in Values /\ live \in Values
  /\ result = Nil /\ empty = "none" /\ rpc = "start"
  /\ RunIdle /\ FormatIdle

CallRemoveFields ==
  /\ rpc = "start"
  /\ result' = removeFields(config, live)
  /\ rpc' = IF result' = Panic THEN "panicked" ELSE "reduced"
  /\ UNCHANGED <<config, live, empty, runVars, fmtVars>>

CallIsEmptyValue ==
  /\ rpc = "start"
  /\ empty' = isEmptyValue(config)
  /\ rpc' = IF empty' = "panic" THEN "panicked" ELSE "judged"
  /\ UNCHANGED <<config, live, result, runVars, fmtVars>>

NextReduce == CallRemoveFields \/ CallIsEmptyValue
SpecReduce == InitReduce /\ [][NextReduce]_vars

(***************************************************************************)
(* Properties of the reducer and of the emptiness predicate                *)
(***************************************************************************)
\* the zero value of each type of the closed set
ZeroValues == {List(<<>>), StrList(<<>>), Map(EmptyMap), Bool(FALSE), F64(0), I64(0),
               Str(<<>>), Nil}
JSONKinds == {"map", "[]interface{}", "string", "bool", "float64", "int64", "nil"}

Min(a, b) == IF a < b THEN a ELSE b

\* r has, at every mapping level the recursion reaches, only keys of c
RECURSIVE NoLiveOnlyKey(_, _, _)
NoLiveOnlyKey(c, l, r) ==
  IF c.k = "map" /\ l.k = "map"
  THEN /\ r.k = "map"
       /\ DOMAIN r.map \subseteq DOMAIN c.map
       /\ \A x \in DOMAIN r.map \cap DOMAIN l.map : NoLiveOnlyKey(c.map[x], l.map[x], r.map[x])
  ELSE IF c.k = "[]interface{}" /\ l.k = "[]interface{}"
  THEN /\ r.k = "[]interface{}"
       /\ Len(r.list) = Len(l.list)
       /\ \A i \in 1..Min(Len(c.list), Len(l.list)) : NoLiveOnlyKey(c.list[i], l.list[i], r.list[i])
  ELSE TRUE

\* C4: for two mappings, removeMapFields returns a mapping whose keys are the keys
\* of config that live has or whose config value is empty; a key of both holds the
\* reduction of the two values, a key missing from live holds config's (empty)
\* value, and no key that only live has appears at any mapping level.
C4_MapKeys ==
  (rpc = "reduced" /\ config.k = "map" /\ live.k = "map") =>
    /\ result.k = "map"
    /\ DOMAIN result.map = {x \in DOMAIN config.map :
                            x \in DOMAIN live.map \/ isEmptyValue(config.map[x]) = "true"}
    /\ \A x \in DOMAIN result.map :
         result.map[x] = IF x \in DOMAIN live.map THEN removeFields(config.map[x], live.map[x])
                       ELSE config.map[x]
    /\ NoLiveOnlyKey(config, live, result)

C4_Witness ==
  /\ rpc = "reduced" /\ config.k = "map" /\ live.k = "map"
  /\ \E x \in DOMAIN live.map : x \notin DOMAIN config.map
  /\ \E x \in DOMAIN config.map : x \notin DOMAIN live.map /\ x \in DOMAIN result.map

\* C5: for two lists, removeListFields returns a list as long as live; element i is
\* the reduction of config[i] and live[i] while config has an element i, and live[i]
\* itself beyond config's end; config's elements beyond live's end change nothing.
C5_ListElements ==
  (rpc = "reduced" /\ config.k = "[]interface{}" /\ live.k = "[]interface{}") =>
    /\ result.k = "[]interface{}"
    /\ Len(result.list) = Len(live.list)
    /\ \A i \in 1..Len(live.list) :
         result.list[i] = IF i <= Len(config.list) THEN removeFields(config.list[i], live.list[i])
                       ELSE live.list[i]
    /\ result = removeFields(List(SubSeq(config.list, 1, Min(Len(config.list), Len(live.list)))), live)

C5_Witness ==
  /\ rpc = "reduced" /\ config.k = "[]interface{}" /\ live.k = "[]interface{}"
  /\ Len(config.list) >= 1 /\ Len(live.list) > Len(config.list)
  /\ result.list[Len(live.list)] = live.list[Len(live.list)]

\* C6: reducing a document of mappings, lists, strings, booleans, numbers and null
\* against itself returns it.
C6_ReduceIdentity ==
  (rpc = "reduced" /\ config = live /\ AllKindsIn(config, JSONKinds)) => result = config

C6_Witness ==
  /\ rpc = "reduced" /\ config = live /\ config.k = "map" /\ result = config
  /\ \E x \in DOMAIN config.map :
       /\ config.map[x].k = "map"
       /\ \E y \in DOMAIN config.map[x].map : config.map[x].map[y] = F64(0)

\* C9: isEmptyValue is true exactly on the zero values, false on every other value
\* of the closed set, and panics on a value of any other type; the reducer never
\* panics on documents built from the closed set.
C9_EmptinessPredicate ==
  /\ empty # "none" =>
       /\ config.k \in ClosedKinds => empty = (IF config \in ZeroValues THEN "true" ELSE "false")
       /\ config.k \notin ClosedKinds => empty = "panic" /\ rpc = "panicked"
  /\ (rpc = "panicked" /\ empty = "none") =>
       ~(AllKindsIn(config, ClosedKinds) /\ AllKindsIn(live, ClosedKinds))

C9_Witness ==
  /\ rpc = "panicked" /\ empty = "panic" /\ config.k \notin ClosedKinds

(***************************************************************************)
(* formatDiff applied to chosen segments, one loop iteration per step      *)
(***************************************************************************)
MaxSegs == 2

\* lines of indented JSON: the text, and the text with its "key": "value" fragments
\* written as key: <omitted>
Ind == <<" ", " ">>
LineKV == [text |-> Ind \o <<QUOTE, "a", QUOTE, ":", " ", QUOTE, "x", QUOTE, ",">>,
           redacted |-> Ind \o <<"a">> \o Omitted]
LineKVLast == [text |-> Ind \o <<QUOTE, "a", "-", "b", QUOTE, ":", " ", QUOTE, "x", "=", QUOTE>>,
               redacted |-> Ind \o <<"a", "-", "b">> \o Omitted]
LineNumber == [text |-> Ind \o <<QUOTE, "a", QUOTE, ":", " ", "1", ",">>,
               redacted |-> Ind \o <<QUOTE, "a", QUOTE, ":", " ", "1", ",">>]
LineEmptyString == [text |-> Ind \o <<QUOTE, "a", QUOTE, ":", " ", QUOTE, QUOTE, ",">>,
                    redacted |-> Ind \o <<QUOTE, "a", QUOTE, ":", " ", QUOTE, QUOTE, ",">>]
LineOpen == [text |-> Ind \o <<QUOTE, "a", QUOTE, ":", " ", "{">>,
             redacted |-> Ind \o <<QUOTE, "a", QUOTE, ":", " ", "{">>]
LineSlashKey == [text |-> Ind \o <<QUOTE, "a", "/", "b", QUOTE, ":", " ", QUOTE, "x", QUOTE>>,
                 redacted |-> Ind \o <<QUOTE, "a", "/", "b", QUOTE, ":", " ", QUOTE, "x", QUOTE>>]
LineSpaceValue == [text |-> Ind \o <<QUOTE, "a", QUOTE, ":", " ", QUOTE, "x", " ", "y", QUOTE>>,
                   redacted |-> Ind \o <<QUOTE, "a", QUOTE, ":", " ", QUOTE, "x", " ", "y", QUOTE>>]
LineClose == [text |-> <<"}">>, redacted |-> <<"}">>]

\* segment texts: complete lines, and the unterminated last line of a document
TextLines == {<<LineKV>>, <<LineKVLast>>, <<LineNumber, LineEmptyString>>, <<LineSlashKey>>,
              <<LineSpaceValue>>, <<LineOpen, LineKV>>, <<LineKV, LineNumber>>}
RECURSIVE JoinLines(_, _)
JoinLines(ls, i) == IF i > Len(ls) THEN <<>> ELSE ls[i].text \o <<NL>> \o JoinLines(ls, i + 1)
SegmentTexts == {JoinLines(ls, 1) : ls \in TextLines} \cup {LineClose.text}
Segments == [Type : {DiffInsert, DiffDelete, DiffEqual}, Text : SegmentTexts]

InitFormat ==
  /\ diffs \in SeqsUpTo(Segments, MaxSegs)
  /\ color \in BOOLEAN /\ omitchanges \in BOOLEAN
  /\ buff = <<>> /\ fi = 0 /\ fpc = "loop"
  /\ RunIdle /\ ReduceIdle

FormatStep(type) ==
  /\ fpc = "loop" /\ fi < Len(diffs)
  /\ diffs[fi + 1].Type = type
  /\ buff' = buff \o formatSegment(diffs[fi + 1], color, omitchanges)
  /\ fi' = fi + 1
  /\ UNCHANGED <<diffs, color, omitchanges, fpc, runVars, redVars>>

FormatInsert == FormatStep(DiffInsert)
FormatDelete == FormatStep(DiffDelete)
FormatEqual == FormatStep(DiffEqual)

FormatReturn ==
  /\ fpc = "loop" /\ fi = Len(diffs)
  /\ fpc' = "done"
  /\ UNCHANGED <<diffs, color, omitchanges, buff, fi, runVars, redVars>>

NextFormat == FormatInsert \/ FormatDelete \/ FormatEqual \/ FormatReturn
SpecFormat == InitFormat /\ [][NextFormat]_vars

\* the lines a segment text was built from
LinesOf(t) ==
  IF t = LineClose.text THEN <<LineClose>> ELSE CHOOSE ls \in TextLines : JoinLines(ls, 1) = t
MarkOf(type) ==
  CASE type = DiffInsert -> <<"+", " ">> [] type = DiffDelete -> <<"-", " ">>
    [] OTHER -> <<" ", " ">>
\* every line behind its mark, redacted or as it is
RECURSIVE MarkedLines(_, _, _, _)
MarkedLines(ls, i, mark, redact) ==
  IF i > Len(ls) THEN <<>>
  ELSE mark \o (IF redact THEN ls[i].redacted ELSE ls[i].text)
       \o (IF ls[i] = LineClose THEN <<>> ELSE <<NL>>)
       \o MarkedLines(ls, i + 1, mark, redact)
Painted(type, col, t) ==
  IF col /\ type # DiffEqual
  THEN (IF type = DiffInsert THEN Green ELSE Red) \o t \o Reset
  ELSE t
ExpectedSegment(d, col, redact) ==
  IF redact /\ d.Type = DiffEqual THEN <<>>
  ELSE Painted(d.Type, col, MarkedLines(LinesOf(d.Text), 1, MarkOf(d.Type), redact))

\* C7: every loop iteration of formatDiff appends to the buffer, in input order:
\* nothing for an Equal segment when redacting; for an Insert or Delete segment when
\* redacting, its lines behind "+ " / "- " with only the "key": "value" fragments
\* rewritten to key: <omitted>; when not redacting, the lines unrewritten, an Equal
\* segment's behind two spaces.
C7_FormatSegments ==
  [][fi' = fi + 1 =>
       /\ Len(buff') >= Len(buff) /\ SubSeq(buff', 1, Len(buff)) = buff
       /\ SubSeq(buff', Len(buff) + 1, Len(buff')) =
            ExpectedSegment(diffs[fi'], color, omitchanges)]_vars

C7_Witness ==
  /\ fpc = "done" /\ omitchanges /\ Len(diffs) = 2
  /\ diffs[1] = [Type |-> DiffEqual, Text |-> JoinLines(<<LineKV>>, 1)]
  /\ diffs[2] = [Type |-> DiffInsert, Text |-> JoinLines(<<LineKV, LineNumber>>, 1)]
  /\ buff = Painted(DiffInsert, color, <<"+", " ">> \o LineKV.redacted \o <<NL>>
                                         \o <<"+", " ">> \o LineNumber.text \o <<NL>>)

(***************************************************************************)
(* Properties of DiffCmd.Run                                               *)
(***************************************************************************)
Completed == pc = "done" /\ ret \in {"nil", ErrDiffFound}
Last(h) == h[Len(h)]

\* C1: a run without a hard failure returns ErrDiffFound exactly when a resource
\* was absent on the server or differed from what it was compared with, and nil
\* exactly when none was.
C1_DiffFoundIff ==
  Completed =>
    (ret = ErrDiffFound <=>
       \E i \in 1..Len(hist) :
         hist[i].fetch = "not found" \/ (hist[i].fetch = "found" /\ hist[i].differs))

\* C2: a run without a hard failure writes, for every resource in sorted order, the
\* header and then exactly one body.
C2_EveryResourceReported ==
  Completed =>
    /\ \A i, j \in 1..Len(apiObjects) : i < j => apiObjects[i].key <= apiObjects[j].key
    /\ Len(out) = 3 * Len(apiObjects)
    /\ \A i \in 1..Len(apiObjects) :
         /\ <<out[3 * i - 2], out[3 * i - 1]>> = Header(apiObjects[i])
         /\ out[3 * i].op \in {"unchanged", "doesn't exist on server", "diff"}

\* C3: a fetch failure or a missing name ends the run at once with an error that
\* is neither nil nor ErrDiffFound, whatever was found before; nothing is written
\* for the failing resource, the output is the complete blocks of the resources
\* before it, and afterwards nothing is fetched or written.
C3_HardFailureStops ==
  [][/\ (ret = "none" /\ ret' \in FetchErrors) =>
          /\ pc' = "done" /\ ret' \notin {"nil", ErrDiffFound}
          /\ out' = out /\ idx' = idx /\ Len(hist') = idx + 1
          /\ Len(out) = 3 * idx
          /\ \A i \in 1..idx :
               /\ <<out[3 * i - 2], out[3 * i - 1]>> = Header(apiObjects[i])
               /\ out[3 * i].op \in {"unchanged", "doesn't exist on server", "diff"}
     /\ ret \in FetchErrors => (out' = out /\ hist' = hist /\ ret' = ret)]_vars

C3_Witness ==
  /\ pc = "done" /\ ret = "err:fetch" /\ diffFound
  /\ idx = 1 /\ Len(out) = 3 /\ Len(hist) = 2

\* C8: a failed serialization of either compared document ends the run with a
\* fatal error for that resource: no body is written and the run does not go on.
C8_SerializationFailureIsFatal ==
  \A i \in 1..Len(hist) :
    hist[i].marshalErr =>
      /\ hist[i].body = "none" /\ i = Len(hist)
      /\ pc = "done" /\ ret \notin {"none", "nil", ErrDiffFound}

\* live differs from desired only by keys that only live has and by missing keys
\* whose desired value is a zero value, through mappings and lists of equal length
RECURSIVE SubsetCompatible(_, _)
SubsetCompatible(c, l) ==
  IF c.k = "map" /\ l.k = "map"
  THEN \A x \in DOMAIN c.map :
         IF x \in DOMAIN l.map THEN SubsetCompatible(c.map[x], l.map[x])
         ELSE c.map[x] \in ZeroValues
  ELSE IF c.k = "[]interface{}" /\ l.k = "[]interface{}"
  THEN /\ Len(c.list) = Len(l.list)
       /\ \A i \in 1..Len(c.list) : SubsetCompatible(c.list[i], l.list[i])
  ELSE c = l

\* C10: under the subset strategy a resource whose live document differs from the
\* desired one only by extra live keys and by missing keys with an empty desired
\* value is reduced to the desired document, reported unchanged and leaves
\* diffFound as it was.
C10_SubsetUnchanged ==
  [][(/\ DiffStrategy = "subset" /\ Len(hist') = Len(hist) + 1
      /\ Last(hist').fetch = "found"
      /\ SubsetCompatible(Last(hist').obj.obj, Last(hist').liveObj)) =>
       /\ Last(hist').left = Last(hist').obj.obj
       /\ Last(hist').body = "unchanged"
       /\ out' = out \o Header(Last(hist').obj)
                     \o <<Write("unchanged", Last(hist').obj.desc, <<>>)>>
       /\ diffFound' = diffFound]_vars

C10_Witness ==
  /\ DiffStrategy = "subset" /\ Len(hist) = 1 /\ ~diffFound
  /\ hist[1].fetch = "found" /\ hist[1].body = "unchanged"
  /\ hist[1].liveObj # hist[1].obj.obj
  /\ "a" \notin DOMAIN hist[1].liveObj.map /\ "o" \in DOMAIN hist[1].liveObj.map

====
